---- MODULE Spec2Model ----
(***************************************************************************)
(* Model of the PR MCP server (src/index.js): the git-context extraction,  *)
(* the PR-title derivation and the tool-call dispatch handler.             *)
(*                                                                         *)
(* JavaScript strings are sequences of one-character strings.  The value   *)
(* null (and undefined) is the constant Null, which is no such sequence.   *)
(***************************************************************************)
EXTENDS Integers, Sequences, FiniteSets, TLC

VARIABLES
    repo,       \* the repository and its surroundings, as the commands see them
    request,    \* the tool call being served: its name and arguments
    executed,   \* the external commands run while serving it, in order
    response,   \* what the dispatch handler returned for it
    ctx,        \* the outcome of the last getGitContext call
    titleCall,  \* a generateTitle application: its arguments and its result
    walk        \* a findGitRoot call: where its loop stands

vars == <<repo, request, executed, response, ctx, titleCall, walk>>

(***************************************************************************)
(* Bounds of the model.                                                    *)
(***************************************************************************)
MaxTokens == 4      \* a branch name is made of at most this many tokens
MaxLogLen == 4      \* characters of a one-line commit log
MaxSlack == 3       \* how far about the size limit the diffs' lengths go

(***************************************************************************)
(* Strings.                                                                *)
(***************************************************************************)
Null == <<"null">>

Lower == <<"a","b","c","d","e","f","g","h","i","j","k","l","m",
           "n","o","p","q","r","s","t","u","v","w","x","y","z">>
Upper == <<"A","B","C","D","E","F","G","H","I","J","K","L","M",
           "N","O","P","Q","R","S","T","U","V","W","X","Y","Z">>
Digits == {"0","1","2","3","4","5","6","7","8","9"}

Range(s) == {s[i] : i \in DOMAIN s}

Letters == Range(Lower) \cup Range(Upper)
IsLetter(c) == c \in Letters
IsDigit(c) == c \in Digits
\* \s of a regular expression and the characters trim() removes
IsSpace(c) == c \in {" ", "\t", "\n", "\r", "\f"}

\* String.prototype.toUpperCase, one character
UpperOf == [c \in Range(Lower) |-> Upper[CHOOSE i \in DOMAIN Lower : Lower[i] = c]]
UpperChar(c) == IF c \in DOMAIN UpperOf THEN UpperOf[c] ELSE c

toUpperCase(s) == [i \in DOMAIN s |-> UpperChar(s[i])]

\* truthiness of a string-or-null value
Truthy(v) == v # Null /\ v # <<>>

Min(S) == CHOOSE x \in S : \A y \in S : x <= y
Max(S) == CHOOSE x \in S : \A y \in S : x >= y

\* String.prototype.trim: the first and last characters that are not white space
RECURSIVE FirstNonSpace(_, _)
FirstNonSpace(s, i) ==
    IF i <= Len(s) /\ IsSpace(s[i]) THEN FirstNonSpace(s, i + 1) ELSE i
RECURSIVE LastNonSpace(_, _)
LastNonSpace(s, j) ==
    IF j >= 1 /\ IsSpace(s[j]) THEN LastNonSpace(s, j - 1) ELSE j

trim(s) == SubSeq(s, FirstNonSpace(s, 1), LastNonSpace(s, Len(s)))

\* does t occur in s at position i (1-based), ignoring case
MatchesAtI(s, i, t) ==
    /\ i + Len(t) - 1 <= Len(s)
    /\ \A k \in 1..Len(t) : UpperChar(s[i + k - 1]) = UpperChar(t[k])

(***************************************************************************)
(* extractTicket: the first match of /[A-Za-z]+-[0-9]+/i, upper-cased.     *)
(***************************************************************************)
\* the end of the greedy match of the pattern that starts at i, or 0
TicketMatchEnd(s, i) ==
    IF ~(i \in DOMAIN s /\ IsLetter(s[i])) THEN 0
    ELSE LET \* [A-Za-z]+ takes the whole run of letters from i
             nonL == {j \in i..Len(s) : ~IsLetter(s[j])}
             h == IF nonL = {} THEN Len(s) + 1 ELSE Min(nonL)
         IN  IF ~(h + 1 <= Len(s) /\ s[h] = "-" /\ IsDigit(s[h + 1])) THEN 0
             ELSE LET nonD == {j \in (h + 1)..Len(s) : ~IsDigit(s[j])}
                  IN  IF nonD = {} THEN Len(s) ELSE Min(nonD) - 1

DefaultPattern == "[A-Za-z]+-[0-9]+"

\* pattern is the repo config's ticketPattern; every config here leaves it
\* unset, so the match is that of DefaultPattern
extractTicket(branchName, pattern) ==
    IF branchName = Null THEN Null               \* branchName?.match
    ELSE LET starts == {i \in DOMAIN branchName : TicketMatchEnd(branchName, i) > 0}
         IN  IF starts = {} THEN Null
             ELSE LET i == Min(starts)
                  IN  toUpperCase(SubSeq(branchName, i, TicketMatchEnd(branchName, i)))

(***************************************************************************)
(* generateTitle.                                                          *)
(***************************************************************************)
Returns(v) == [threw |-> FALSE, value |-> v, message |-> "", about |-> <<>>]
Throws(msg, arg) == [threw |-> TRUE, value |-> Null, message |-> msg, about |-> arg]

\* the alternatives of /^(feature|fix|hotfix|bugfix|chore|refactor|docs|test|ci)s?\//i
BranchTypes == <<
    <<"f","e","a","t","u","r","e">>, <<"f","i","x">>, <<"h","o","t","f","i","x">>,
    <<"b","u","g","f","i","x">>, <<"c","h","o","r","e">>,
    <<"r","e","f","a","c","t","o","r">>, <<"d","o","c","s">>, <<"t","e","s","t">>,
    <<"c","i">> >>

\* the length of the match of the branch-type pattern at the start of s, or 0
BranchTypeMatchLen(s) ==
    LET lens == {n \in 1..Len(s) :
                   \E k \in DOMAIN BranchTypes :
                     LET w == BranchTypes[k]
                     IN  /\ MatchesAtI(s, 1, w)
                         /\ \/ n = Len(w) + 1 /\ s[n] = "/"
                            \/ /\ n = Len(w) + 2
                               /\ UpperChar(s[n - 1]) = "S"
                               /\ s[n] = "/"}
    IN  IF lens = {} THEN 0 ELSE Min(lens)

\* the branch-type pattern applied again to what it left
StripBranchTypeTwice(s) ==
    LET once == SubSeq(s, BranchTypeMatchLen(s) + 1, Len(s))
    IN  SubSeq(once, BranchTypeMatchLen(once) + 1, Len(once))

\* branchName.replace(/^(feature|...|ci)s?\//i, "")
StripBranchType(s) == SubSeq(s, BranchTypeMatchLen(s) + 1, Len(s))

\* desc.replace(new RegExp(`${ticket}-?`, "i"), ""): the first occurrence of the
\* ticket, ignoring case, and a hyphen after it
RemoveTicket(desc, ticket) ==
    LET at == {i \in DOMAIN desc : MatchesAtI(desc, i, ticket)}
    IN  IF at = {} THEN desc
        ELSE LET i == Min(at)
                 e == i + Len(ticket) - 1
                 e2 == IF e + 1 <= Len(desc) /\ desc[e + 1] = "-" THEN e + 1 ELSE e
             IN  SubSeq(desc, 1, i - 1) \o SubSeq(desc, e2 + 1, Len(desc))

\* the separators' replacement with the hyphen left out of the class
ReplaceUnderscores(s) == [i \in DOMAIN s |-> IF s[i] = "_" THEN " " ELSE s[i]]

\* desc.replace(/[-_]/g, " ")
ReplaceSeparators(s) == [i \in DOMAIN s |-> IF s[i] \in {"-", "_"} THEN " " ELSE s[i]]

\* desc.replace(/\s+/g, " ")
RECURSIVE CollapseSpaces(_)
CollapseSpaces(s) ==
    IF s = <<>> THEN <<>>
    ELSE IF IsSpace(Head(s))
         THEN LET nonS == {j \in DOMAIN s : ~IsSpace(s[j])}
              IN  IF nonS = {} THEN <<" ">>
                  ELSE <<" ">> \o CollapseSpaces(SubSeq(s, Min(nonS), Len(s)))
         ELSE <<Head(s)>> \o CollapseSpaces(Tail(s))

\* CleanUp without the collapse of white-space runs
CleanUpNoCollapse(desc) == trim(ReplaceSeparators(desc))

\* desc.replace(/[-_]/g, " ").replace(/\s+/g, " ").trim()
CleanUp(desc) == trim(CollapseSpaces(ReplaceSeparators(desc)))

\* the value of desc when the title is built (branchName a string)
TitleDescription(branchName, repoConfig) ==
    LET ticket == extractTicket(branchName, repoConfig.ticketPattern)
        stripped == StripBranchType(branchName)
        removed == IF ticket # Null THEN RemoveTicket(stripped, ticket) ELSE stripped
    IN  CleanUp(removed)

PullRequest == <<"P","u","l","l"," ","R","e","q","u","e","s","t">>

generateTitle(branchName, repoConfig) ==
    IF branchName = Null
    THEN \* null.replace: a TypeError
         Throws("Cannot read properties of null (reading 'replace')", <<>>)
    ELSE LET ticket == extractTicket(branchName, repoConfig.ticketPattern)
             desc == TitleDescription(branchName, repoConfig)
             t1 == IF Truthy(repoConfig.titlePrefix)
                   THEN repoConfig.titlePrefix \o <<" ">> ELSE <<>>
             t2 == IF ticket # Null THEN <<"[">> \o ticket \o <<"]", " ">> ELSE <<>>
             t3 == IF desc # <<>> THEN desc ELSE PullRequest
         IN  Returns(t1 \o t2 \o t3)

(***************************************************************************)
(* Repository configuration (.pr-mcp.json), as loadRepoConfig returns it.  *)
(* NoRepoConfig is the null of a missing or unparsable file; a field the   *)
(* file does not set is Null (reviewers: the empty list, which every use   *)
(* treats as it treats a missing one).  repoConfig || {} is OrEmpty.       *)
(***************************************************************************)
EmptyRepoConfig ==
    [isNull |-> FALSE, reviewers |-> <<>>, targetBranch |-> Null, draft |-> FALSE,
     ticketPattern |-> Null, titlePrefix |-> Null]
NoRepoConfig == [EmptyRepoConfig EXCEPT !.isNull = TRUE]

OrEmpty(repoConfig) == IF repoConfig.isNull THEN EmptyRepoConfig ELSE repoConfig

(***************************************************************************)
(* The file system and the repository.                                     *)
(*                                                                         *)
(* A directory is the sequence of its path components below "/".  repo is  *)
(*   gitDirs     the directories that hold a .git entry                    *)
(*   processCwd  process.cwd()                                             *)
(*   localRefs   the names git rev-parse --verify resolves                 *)
(*   remoteRefs  the names T for which origin/T resolves                   *)
(*   repoConfigFile  the file .pr-mcp.json at the repository root          *)
(*   configFile  the file ~/.pr-mcp/mcp-config.json                        *)
(*   openPR      the current branch has an open pull request               *)
(* A file is absent, invalid (no JSON) or parsed, with the value it holds. *)
(***************************************************************************)
RootDir == <<>>
dirname(dir) == SubSeq(dir, 1, Len(dir) - 1)

\* findGitRoot of an absolute directory held as its names, which is what the
\* tools are given here; SpecRoot takes the loop on path strings, relative
\* ones included
RECURSIVE findGitRoot(_, _)
findGitRoot(gitDirs, dir) ==
    IF dir = RootDir THEN Null
    ELSE IF dir \in gitDirs THEN dir
    ELSE findGitRoot(gitDirs, dirname(dir))

Main == <<"m","a","i","n">>
Develop == <<"d","e","v","e","l","o","p">>
OriginOf(T) == <<"o","r","i","g","i","n","/">> \o T

\* the standard output of a successful git rev-parse --verify: an object name
ObjectName == <<"4","b","8","2","5","d","c","\n">>

\* execGit: the trimmed standard output, or null when the command failed.
\* out is what running the command gives: its standard output, or Null when it
\* exits non-zero or cannot be run
execGit(out) == IF out = Null THEN Null ELSE trim(out)

\* one external command, as run: which, on what, and what running it gave (the
\* diff's output is a long string)
Ran(cmd, arg, out) == [cmd |-> cmd, arg |-> arg, out |-> out]

\* what git rev-parse --verify <ref> gives in this repository
RevParseLocal(r, T) == IF T \in r.localRefs THEN ObjectName ELSE Null
RevParseRemote(r, T) == IF T \in r.remoteRefs THEN ObjectName ELSE Null

\* commits.split("\n")
RECURSIVE Split(_)
Split(s) ==
    LET nl == {i \in DOMAIN s : s[i] = "\n"}
    IN  IF nl = {} THEN <<s>>
        ELSE <<SubSeq(s, 1, Min(nl) - 1)>> \o Split(SubSeq(s, Min(nl) + 1, Len(s)))

\* .filter(Boolean) of an array of strings
FilterBoolean(lines) == SelectSeq(lines, LAMBDA l : l # <<>>)

(***************************************************************************)
(* Long strings.  A diff is held run-length encoded: a sequence of runs    *)
(* [c, n], n >= 1 copies of the character c, no two neighbours of the same *)
(* character.  LongNull is the null of such a value.  The operations below *)
(* are those of String on this representation.                             *)
(***************************************************************************)
Run(c, n) == [c |-> c, n |-> n]
LongNull == <<Run("null", 0)>>

\* s1 + s2
LongConcat(a, b) ==
    IF a = <<>> THEN b
    ELSE IF b = <<>> THEN a
    ELSE IF a[Len(a)].c = b[1].c
    THEN SubSeq(a, 1, Len(a) - 1) \o <<Run(b[1].c, a[Len(a)].n + b[1].n)>> \o Tail(b)
    ELSE a \o b

\* the long string of a string
RECURSIVE Long(_)
Long(s) == IF s = <<>> THEN <<>> ELSE LongConcat(<<Run(Head(s), 1)>>, Long(Tail(s)))

\* s.length
RECURSIVE LongLen(_)
LongLen(t) == IF t = <<>> THEN 0 ELSE Head(t).n + LongLen(Tail(t))

\* s.substring(0, k)
RECURSIVE LongTake(_, _)
LongTake(t, k) ==
    IF k <= 0 \/ t = <<>> THEN <<>>
    ELSE IF Head(t).n >= k THEN <<Run(Head(t).c, k)>>
    ELSE <<Head(t)>> \o LongTake(Tail(t), k - Head(t).n)

\* s[i - 1]: the i-th character
RECURSIVE LongAt(_, _)
LongAt(t, i) == IF i <= Head(t).n THEN Head(t).c ELSE LongAt(Tail(t), i - Head(t).n)

\* s.trim()
LongTrim(t) ==
    LET keep == {i \in DOMAIN t : ~IsSpace(t[i].c)}
    IN  IF keep = {} THEN <<>> ELSE SubSeq(t, Min(keep), Max(keep))

LongTruthy(v) == v # LongNull /\ v # <<>>

\* execGit, for a command whose output is held as a long string
execGitLong(out) == IF out = LongNull THEN LongNull ELSE LongTrim(out)

maxDiffSize == 80000
\* "\n\n... [diff truncated]"
TruncationMarker == <<"\n","\n",".",".","."," ","[","d","i","f","f"," ",
                      "t","r","u","n","c","a","t","e","d","]">>

\* the size limit with the cut taken one character short
LimitDiffShort(out) ==
    LET diff == IF LongTruthy(out) THEN out ELSE <<>>
    IN  IF LongLen(diff) > maxDiffSize
        THEN LongConcat(LongTake(diff, maxDiffSize - 1), Long(TruncationMarker))
        ELSE diff

\* let diff = execGit(...) || ""; and the size limit
LimitDiff(out) ==
    LET diff == IF LongTruthy(out) THEN out ELSE <<>>
    IN  IF LongLen(diff) > maxDiffSize
        THEN LongConcat(LongTake(diff, maxDiffSize), Long(TruncationMarker))
        ELSE diff

\* the count without .filter(Boolean)
CountCommitsUnfiltered(commits) ==
    IF Truthy(commits) THEN Len(Split(commits)) ELSE 0

\* commits ? commits.split("\n").filter(Boolean).length : 0
CountCommits(commits) ==
    IF Truthy(commits) THEN Len(FilterBoolean(Split(commits))) ELSE 0

NoContext ==
    [gitRoot |-> Null, currentBranch |-> Null, targetBranch |-> Null,
     resolvedTarget |-> Null, commits |-> Null, commitMessages |-> Null,
     diffStat |-> Null, diff |-> LongNull, commitCount |-> 0]

\* the outcome of a call: the value returned or the error thrown, and the
\* commands run on the way
Outcome(res, cmds) == [threw |-> res.threw, value |-> res.value,
                       message |-> res.message, about |-> res.about, cmds |-> cmds]

\* the resolution with the remote-tracking reference tried first
ResolveTargetRemoteFirst(r, targetBranch) ==
    LET local == Ran("git rev-parse --verify", targetBranch, RevParseLocal(r, targetBranch))
        remote == Ran("git rev-parse --verify", OriginOf(targetBranch),
                      RevParseRemote(r, targetBranch))
    IN  IF Truthy(execGit(remote.out))
        THEN [found |-> TRUE, resolvedTarget |-> OriginOf(targetBranch), cmds |-> <<remote>>]
        ELSE IF Truthy(execGit(local.out))
        THEN [found |-> TRUE, resolvedTarget |-> targetBranch, cmds |-> <<remote, local>>]
        ELSE [found |-> FALSE, resolvedTarget |-> Null, cmds |-> <<remote, local>>]

\* "Resolve target branch": the local reference, else origin/<name>, else none
ResolveTarget(r, targetBranch) ==
    LET local == Ran("git rev-parse --verify", targetBranch, RevParseLocal(r, targetBranch))
        remote == Ran("git rev-parse --verify", OriginOf(targetBranch),
                      RevParseRemote(r, targetBranch))
    IN  IF Truthy(execGit(local.out))
        THEN [found |-> TRUE, resolvedTarget |-> targetBranch, cmds |-> <<local>>]
        ELSE IF Truthy(execGit(remote.out))
        THEN [found |-> TRUE, resolvedTarget |-> OriginOf(targetBranch),
              cmds |-> <<local, remote>>]
        ELSE [found |-> FALSE, resolvedTarget |-> Null, cmds |-> <<local, remote>>]

\* getGitContext(cwd, targetBranch); outs holds what the five read commands give
\* when run (standard output, or Null for a failure)
getGitContext(r, cwd, targetBranch, outs) ==
    LET gitRoot == findGitRoot(r.gitDirs, cwd)
        target == ResolveTarget(r, targetBranch)
    IN  IF gitRoot = Null
        THEN Outcome(Throws("Not in a git repository", <<>>), <<>>)
        ELSE IF ~target.found
        THEN Outcome(Throws("Target branch not found", targetBranch), target.cmds)
        ELSE
        LET resolvedTarget == target.resolvedTarget
            reads == << Ran("git branch --show-current", <<>>, outs.branch),
                        Ran("git log --oneline", resolvedTarget, outs.log),
                        Ran("git log --pretty", resolvedTarget, outs.messages),
                        Ran("git diff --stat", resolvedTarget, outs.stat),
                        Ran("git diff", resolvedTarget, outs.diff) >>
            commits == execGit(outs.log)
        IN  Outcome(Returns(
              [gitRoot |-> gitRoot,
               currentBranch |-> execGit(outs.branch),
               targetBranch |-> targetBranch,
               resolvedTarget |-> resolvedTarget,
               commits |-> commits,
               commitMessages |-> execGit(outs.messages),
               diffStat |-> execGit(outs.stat),
               diff |-> LimitDiff(execGitLong(outs.diff)),
               commitCount |-> CountCommits(commits)]),
              target.cmds \o reads)

(***************************************************************************)
(* Requests, and the values the variables hold when nothing has used them. *)
(***************************************************************************)
NoArgs ==
    [target_branch |-> Null, working_directory |-> Null, title |-> Null,
     description |-> Null, reviewers |-> Null, draft |-> FALSE,
     include_diff |-> TRUE, pr_number |-> Null]
NoRequest == [name |-> "", args |-> NoArgs]
\* the text of a result: the template's lead and what is filled into it
Text(lead) ==
    [lead |-> lead, title |-> Null, branch |-> Null, target |-> Null,
     commitCount |-> 0, url |-> Null, number |-> Null, reviewers |-> Null,
     draft |-> "", description |-> Null, withDiff |-> FALSE, checklist |-> <<>>,
     config |-> NoRepoConfig, message |-> "", about |-> <<>>]
NoResponse == [returned |-> FALSE, isError |-> FALSE, text |-> Text("")]
NoOutcome == Outcome(Throws("", <<>>), <<>>)
NoTitleCall ==
    [branchName |-> Null, repoConfig |-> EmptyRepoConfig, done |-> FALSE,
     result |-> Throws("", <<>>), desc |-> Null]

\* no findGitRoot call under way
NoWalk == [pc |-> "idle", start |-> <<>>, dir |-> <<>>, result |-> Null]

File(state, value) == [state |-> state, value |-> value]

\* loadConfig: the parsed global configuration file, or the default
DefaultConfig == [isNull |-> FALSE, defaultTarget |-> Develop]
NullConfig == [isNull |-> TRUE, defaultTarget |-> Null]
loadConfig(file) == IF file.state = "parsed" THEN file.value ELSE DefaultConfig

RepoDir == <<"r">>
SubDir == <<"r", "s">>
OutsideDir == <<"w">>

\* loadRepoConfig(cwd): the parsed .pr-mcp.json of the directory, or null
loadRepoConfig(r, dir) ==
    IF dir = RepoDir /\ r.repoConfigFile.state = "parsed"
    THEN r.repoConfigFile.value
    ELSE NoRepoConfig

IdleRepo ==
    [gitDirs |-> {RepoDir}, processCwd |-> SubDir, localRefs |-> {Develop},
     remoteRefs |-> {}, repoConfigFile |-> File("absent", NoRepoConfig),
     configFile |-> File("absent", DefaultConfig), openPR |-> FALSE]

(***************************************************************************)
(* SpecTitle: generateTitle applied to branch names and configurations.    *)
(***************************************************************************)
Tokens == << <<"F","i","x">>, <<"s">>, <<"/">>, <<"T","k","-","7">>, <<"-">>,
             <<"7">>, <<"_">> >>

RECURSIVE TokenStrings(_)
TokenStrings(n) ==
    IF n = 0 THEN {<<>>}
    ELSE LET shorter == TokenStrings(n - 1)
         IN  shorter \cup {p \o Tokens[k] : p \in shorter, k \in DOMAIN Tokens}

FeatureLogin == <<"f","e","a","t","u","r","e","/","T","K","-","4","2","-",
                  "a","d","d","-","l","o","g","i","n">>
OnlyTicket == <<"T","K","-","1","2","3","4">>
Xyz == <<"x","y","z">>
HotfixPayment == <<"h","o","t","f","i","x","/","p","a","y","m","e","n","t","-","b","u","g">>

Spaced == <<" ","a","\t"," ","b"," ">>

BranchNames ==
    TokenStrings(MaxTokens) \cup {FeatureLogin, OnlyTicket, Xyz, HotfixPayment, Spaced}

Wip == <<"[","W","I","P","]">>
TitleConfigs ==
    { EmptyRepoConfig,
      [EmptyRepoConfig EXCEPT !.titlePrefix = Wip],
      [EmptyRepoConfig EXCEPT !.titlePrefix = <<>>],
      [EmptyRepoConfig EXCEPT !.titlePrefix = Wip \o <<" ">>] }

InitTitle ==
    /\ \E b \in BranchNames \cup {Null}, c \in TitleConfigs :
         titleCall = [NoTitleCall EXCEPT !.branchName = b, !.repoConfig = c]
    /\ walk = NoWalk
    /\ repo = IdleRepo
    /\ request = NoRequest
    /\ executed = <<>>
    /\ response = NoResponse
    /\ ctx = NoOutcome

GenerateTitleCall ==
    /\ ~titleCall.done
    /\ titleCall' =
         [titleCall EXCEPT
            !.done = TRUE,
            !.result = generateTitle(titleCall.branchName, titleCall.repoConfig),
            !.desc = IF titleCall.branchName = Null THEN Null
                     ELSE TitleDescription(titleCall.branchName, titleCall.repoConfig)]
    /\ UNCHANGED <<repo, request, executed, response, ctx, walk>>

SpecTitle == InitTitle /\ [][GenerateTitleCall]_vars

(***************************************************************************)
(* Claims about generateTitle (SpecTitle).                                 *)
(***************************************************************************)
TitleReturned == titleCall.done /\ ~titleCall.result.threw

NoDoubleSpace(t) == \A i \in 1..(Len(t) - 1) : ~(t[i] = " " /\ t[i + 1] = " ")
NoOuterSpace(t) == t # <<>> => ~IsSpace(t[1]) /\ ~IsSpace(t[Len(t)])
Tidy(t) == NoDoubleSpace(t) /\ NoOuterSpace(t)

HasAdjacentSeparators(b) ==
    \E i \in 1..(Len(b) - 1) : b[i] \in {"-", "_"} /\ b[i + 1] \in {"-", "_"}

\* C6, as stated: for every branch name and a configuration with no
\* ticketPattern, the title has no two consecutive spaces and neither starts
\* nor ends with white space.
C6_TitleTidy == TitleReturned => Tidy(titleCall.result.value)

\* C6, amended: the same, for a configuration whose titlePrefix is not set or
\* is itself free of consecutive spaces and of leading and trailing white space.
C6_TitleTidyGivenTidyPrefix ==
    (TitleReturned /\ titleCall.repoConfig.ticketPattern = Null
       /\ (Truthy(titleCall.repoConfig.titlePrefix)
             => Tidy(titleCall.repoConfig.titlePrefix)))
    => Tidy(titleCall.result.value)

\* a title was built with a prefix and a ticket from a branch name whose
\* separators come in a run
C6_Witness ==
    /\ TitleReturned
    /\ titleCall.repoConfig.titlePrefix = Wip
    /\ HasAdjacentSeparators(titleCall.branchName)
    /\ extractTicket(titleCall.branchName, Null) # Null
    /\ titleCall.desc # <<>>

\* The title the specification describes, stated on its own terms.
\* A ticket match: letters from i to h-1, a hyphen at h, digits from h+1 to e.
TicketMatches(b) ==
    {m \in (DOMAIN b) \X (DOMAIN b) :
       \E h \in (m[1] + 1)..(m[2] - 1) :
          /\ \A j \in m[1]..(h - 1) : IsLetter(b[j])
          /\ b[h] = "-"
          /\ \A j \in (h + 1)..m[2] : IsDigit(b[j])}

\* the first match, taken as far as it goes
ExpectedTicket(b) ==
    IF TicketMatches(b) = {} THEN Null
    ELSE LET first == Min({m[1] : m \in TicketMatches(b)})
             last == Max({m[2] : m \in {x \in TicketMatches(b) : x[1] = first}})
         IN  toUpperCase(SubSeq(b, first, last))

\* branch-type prefixes: a type, an optional s, a slash
PrefixForms ==
    UNION {{BranchTypes[k] \o <<"/">>, BranchTypes[k] \o <<"s", "/">>} :
             k \in DOMAIN BranchTypes}

ExpectedStripped(b) ==
    LET found == {q \in PrefixForms : MatchesAtI(b, 1, q)}
    IN  IF found = {} THEN b
        ELSE SubSeq(b, Len(CHOOSE q \in found : TRUE) + 1, Len(b))

ExpectedRemoved(d, t) ==
    IF t = Null \/ ~\E i \in DOMAIN d : MatchesAtI(d, i, t) THEN d
    ELSE LET i == CHOOSE k \in DOMAIN d :
                    /\ MatchesAtI(d, k, t)
                    /\ \A j \in 1..(k - 1) : ~MatchesAtI(d, j, t)
             after == i + Len(t)
             rest == IF after <= Len(d) /\ d[after] = "-" THEN after + 1 ELSE after
         IN  SubSeq(d, 1, i - 1) \o SubSeq(d, rest, Len(d))

\* the words of d (what hyphens, underscores and white space separate), joined
\* by single spaces
IsSeparator(c) == IsSpace(c) \/ c \in {"-", "_"}
RECURSIVE JoinWords(_, _)
JoinWords(d, i) ==
    IF i > Len(d) THEN <<>>
    ELSE IF IsSeparator(d[i]) THEN JoinWords(d, i + 1)
    ELSE LET seps == {j \in i..Len(d) : IsSeparator(d[j])}
             e == IF seps = {} THEN Len(d) ELSE Min(seps) - 1
             more == JoinWords(d, e + 1)
         IN  SubSeq(d, i, e) \o (IF more = <<>> THEN <<>> ELSE <<" ">> \o more)

ExpectedTitle(b, config) ==
    LET t == ExpectedTicket(b)
        d == JoinWords(ExpectedRemoved(ExpectedStripped(b), t), 1)
    IN  (IF Truthy(config.titlePrefix) THEN config.titlePrefix \o <<" ">> ELSE <<>>)
        \o (IF t = Null THEN <<>> ELSE <<"[">> \o t \o <<"]", " ">>)
        \o (IF d = <<>> THEN PullRequest ELSE d)

TitleOf(b, prefix) ==
    generateTitle(b, [EmptyRepoConfig EXCEPT !.titlePrefix = prefix]).value

\* C7: with the default ticket pattern the title is the configured prefix and
\* a space, then the bracketed upper-cased first ticket match and a space, then
\* the cleaned description or "Pull Request"; and the four examples come out
\* as the specification says.
C7_TitleAssembly ==
    /\ (TitleReturned /\ titleCall.repoConfig.ticketPattern = Null)
         => titleCall.result.value
              = ExpectedTitle(titleCall.branchName, titleCall.repoConfig)
    /\ (TitleReturned /\ titleCall.branchName = FeatureLogin
          /\ titleCall.repoConfig = EmptyRepoConfig)
         => titleCall.result.value
              = <<"[","T","K","-","4","2","]"," ","a","d","d"," ","l","o","g","i","n">>
    /\ (TitleReturned /\ titleCall.branchName = OnlyTicket
          /\ titleCall.repoConfig = EmptyRepoConfig)
         => titleCall.result.value = <<"[","T","K","-","1","2","3","4","]"," ">> \o PullRequest
    /\ (TitleReturned /\ titleCall.branchName = Xyz
          /\ titleCall.repoConfig = EmptyRepoConfig)
         => titleCall.result.value = Xyz
    /\ (TitleReturned /\ titleCall.branchName = HotfixPayment
          /\ titleCall.repoConfig.titlePrefix = Wip)
         => titleCall.result.value
              = Wip \o <<" ","p","a","y","m","e","n","t"," ","b","u","g">>
    /\ (TitleReturned /\ titleCall.branchName = <<>>
          /\ titleCall.repoConfig = EmptyRepoConfig)
         => titleCall.result.value = PullRequest

\* a title was built with a prefix from a name that starts with a plural
\* branch type and holds a ticket in lower and upper case
C7_Witness ==
    /\ TitleReturned
    /\ BranchTypeMatchLen(titleCall.branchName) = 5
    /\ extractTicket(titleCall.branchName, Null) = <<"T","K","-","7">>
    /\ titleCall.repoConfig.titlePrefix = Wip

\* C8: no ticket can be extracted from the description generateTitle is left
\* with after prefix stripping, ticket removal and cleaning.
C8_NoTicketInDescription ==
    (titleCall.done /\ titleCall.desc # Null
       /\ titleCall.repoConfig.ticketPattern = Null)
    => extractTicket(titleCall.desc, Null) = Null

\* the branch name held a second ticket, which the removal of the first left
C8_Witness ==
    /\ titleCall.done
    /\ titleCall.branchName # Null
    /\ LET t == extractTicket(titleCall.branchName, Null)
       IN  /\ t # Null
           /\ extractTicket(RemoveTicket(StripBranchType(titleCall.branchName), t), Null)
                # Null

(***************************************************************************)
(* SpecContext and SpecDiff: getGitContext applied to repositories, with   *)
(* the commit logs (SpecContext) or the diffs (SpecDiff) the commands may  *)
(* print.                                                                  *)
(***************************************************************************)
RECURSIVE StringsOver(_, _)
StringsOver(alphabet, n) ==
    IF n = 0 THEN {<<>>}
    ELSE LET shorter == StringsOver(alphabet, n - 1)
         IN  shorter \cup {p \o <<c>> : p \in shorter, c \in alphabet}

\* what git log --oneline may give: a failure, or its output
LogOutputs == {Null} \cup StringsOver({"a", " ", "\n"}, MaxLogLen)

FeatureBranchOut == FeatureLogin \o <<"\n">>
SmallDiff == Long(<<"+","a","\n","-","b","\n">>)
SomeText == <<"x","\n">>

\* what git diff may give: a failure, or an output of a length about the limit
\* or small, with white space at its ends or not
DiffBulks == (0..MaxSlack) \cup ((maxDiffSize - MaxSlack)..(maxDiffSize + MaxSlack))
DiffHeads == {<<>>, <<"\n", " ">>, <<"-", "a">>}
DiffTails == {<<>>, <<"\n">>, <<"a", "b">>, <<"b", " ", "\n">>}
DiffOutputs ==
    {LongNull} \cup
    {LongConcat(Long(h), LongConcat(IF m = 0 THEN <<>> ELSE <<Run("+", m)>>, Long(tl))) :
       h \in DiffHeads, m \in DiffBulks, tl \in DiffTails}

ContextRepos ==
    {[IdleRepo EXCEPT !.gitDirs = g, !.localRefs = l, !.remoteRefs = o] :
       g \in {{}, {RepoDir}}, l \in SUBSET {Main, Develop}, o \in SUBSET {Main, Develop}}

InitContext ==
    /\ repo \in ContextRepos
    /\ request = NoRequest
    /\ executed = <<>>
    /\ response = NoResponse
    /\ ctx = NoOutcome
    /\ titleCall = NoTitleCall
    /\ walk = NoWalk

\* the one call of getGitContext(cwd, T) of a behaviour, from one of cwds, in
\* which the log and diff commands give one of logs and one of diffs
GetGitContextCall(cwds, logs, diffs) ==
    /\ request = NoRequest
    /\ \E cwd \in cwds, T \in {Main, Develop},
          b \in {Null, FeatureBranchOut}, l \in logs, d \in diffs :
       LET outs == [branch |-> b, log |-> l, messages |-> SomeText,
                    stat |-> SomeText, diff |-> d]
           got == getGitContext(repo, cwd, T, outs)
       IN  /\ request' = [name |-> "getGitContext",
                          args |-> [NoArgs EXCEPT !.working_directory = cwd,
                                                  !.target_branch = T]]
           /\ ctx' = got
           /\ executed' = got.cmds
           /\ UNCHANGED <<repo, response, titleCall, walk>>

ContextOfLog == GetGitContextCall({RepoDir, SubDir, OutsideDir}, LogOutputs, {SmallDiff})
ContextOfDiff == GetGitContextCall({RepoDir}, {SomeText}, DiffOutputs)

NextContext == ContextOfLog \/ ContextOfDiff
SpecContext == InitContext /\ [][NextContext]_vars

(***************************************************************************)
(* Claims about getGitContext.                                             *)
(***************************************************************************)
ContextCalled == request.name = "getGitContext"
ContextReturned == ContextCalled /\ ~ctx.threw
RequestedTarget == request.args.target_branch
RootFound == findGitRoot(repo.gitDirs, request.args.working_directory) # Null

\* some command of the call verified that ref exists
Verified(ref) ==
    \E i \in DOMAIN executed :
       /\ executed[i].cmd = "git rev-parse --verify"
       /\ executed[i].arg = ref
       /\ executed[i].out # Null

\* C1: the local reference wins, then origin/T, else the call fails naming T
\* and returns no context; a returned resolvedTarget was verified in the call.
C1_TargetResolution ==
    (ContextCalled /\ RootFound) =>
       /\ RequestedTarget \in repo.localRefs
            => ContextReturned /\ ctx.value.resolvedTarget = RequestedTarget
       /\ (RequestedTarget \notin repo.localRefs /\ RequestedTarget \in repo.remoteRefs)
            => ContextReturned /\ ctx.value.resolvedTarget = OriginOf(RequestedTarget)
       /\ (RequestedTarget \notin repo.localRefs /\ RequestedTarget \notin repo.remoteRefs)
            => /\ ctx.threw
               /\ ctx.value = Null
               /\ ctx.message = "Target branch not found"
               /\ ctx.about = RequestedTarget
       /\ ContextReturned => Verified(ctx.value.resolvedTarget)

\* the target exists both as a local and as a remote reference
C1_Witness ==
    /\ ContextReturned
    /\ RequestedTarget \in repo.localRefs \cap repo.remoteRefs
    /\ ctx.value.resolvedTarget = RequestedTarget

\* the value the diff command returned to getGitContext in this call
RawDiff ==
    LET i == CHOOSE k \in DOMAIN executed : executed[k].cmd = "git diff"
    IN  execGitLong(executed[i].out)

\* where the runs of a long string start
RECURSIVE RunStarts(_, _)
RunStarts(t, from) ==
    IF t = <<>> THEN {} ELSE {from} \cup RunStarts(Tail(t), from + Head(t).n)

\* a and b hold the same characters at the positions from..to: they do where
\* a run of either starts, and so in between
SameCharacters(a, b, from, to) ==
    \A i \in (RunStarts(a, 1) \cup RunStarts(b, 1) \cup {from}) \cap (from..to) :
       LongAt(a, i) = LongAt(b, i)

\* C4: a diff longer than 80000 characters comes back as its first 80000
\* characters and the truncation marker, any other (a failed or empty diff too)
\* unchanged; in every case it is no longer than 80000 plus the marker.
C4_DiffLimit ==
    ContextReturned =>
       LET raw == IF RawDiff = LongNull THEN <<>> ELSE RawDiff
           diff == ctx.value.diff
           cut == [i \in 1..(LongLen(diff) - 80000) |-> LongAt(diff, 80000 + i)]
       IN  /\ LongLen(raw) > 80000
             => /\ LongLen(diff) = 80000 + Len(TruncationMarker)
                /\ SameCharacters(diff, raw, 1, 80000)
                /\ cut = TruncationMarker
           /\ LongLen(raw) <= 80000 => diff = raw
           /\ LongLen(diff) <= 80000 + Len(TruncationMarker)

\* a diff of 80001 characters was cut, and one of 80000 was not
C4_Witness ==
    /\ ContextReturned
    /\ RawDiff # LongNull
    /\ LongLen(RawDiff) = 80001
    /\ LongLen(ctx.value.diff) = 80022

\* the lines of s that hold a character: each starts where a character that is
\* no line break follows a line break or begins s
NonEmptyLines(s) ==
    Cardinality({i \in DOMAIN s : s[i] # "\n" /\ (i = 1 \/ s[i - 1] = "\n")})

\* C5: commitCount is the number of non-empty lines of the one-line log, and 0
\* when the log is empty or its command failed.
C5_CommitCount ==
    ContextReturned =>
       /\ ctx.value.commitCount \in Nat
       /\ ctx.value.commitCount
            = IF ctx.value.commits = Null THEN 0 ELSE NonEmptyLines(ctx.value.commits)
       /\ ctx.value.commits \in {Null, <<>>} => ctx.value.commitCount = 0

\* a log of two commits with an empty line between them
C5_Witness ==
    /\ ContextReturned
    /\ ctx.value.commits = <<"a", "\n", "\n", "a">>
    /\ ctx.value.commitCount = 2

(***************************************************************************)
(* The tools.  Each is the body of its case in the CallToolRequestSchema   *)
(* handler: what it returns or throws, the commands it ran, the context it *)
(* built, and whether the branch has an open pull request afterwards.      *)
(* env holds what the external commands give when run: outs for the five   *)
(* read commands of getGitContext, push, create, list and edit for the     *)
(* others (Null: the command fails).                                       *)
(***************************************************************************)
Done(text, cmds, c, pr) ==
    [threw |-> FALSE, text |-> text, message |-> "", about |-> <<>>,
     cmds |-> cmds, ctx |-> c, openPR |-> pr]
Failed(message, about, cmds, c, pr) ==
    [threw |-> TRUE, text |-> Text(""), message |-> message, about |-> about,
     cmds |-> cmds, ctx |-> c, openPR |-> pr]

TypeErrorReplace == "Cannot read properties of null (reading 'replace')"

\* array.join(sep)
RECURSIVE Join(_, _)
Join(names, sep) ==
    IF names = <<>> THEN <<>>
    ELSE IF Len(names) = 1 THEN names[1]
    ELSE names[1] \o sep \o Join(Tail(names), sep)

\* args?.target_branch || config.defaultTarget || "develop"
TargetBranchOf(args, config) ==
    IF Truthy(args.target_branch) THEN Returns(args.target_branch)
    ELSE IF config.isNull
    THEN Throws("Cannot read properties of null (reading 'defaultTarget')", <<>>)
    ELSE IF Truthy(config.defaultTarget) THEN Returns(config.defaultTarget)
    ELSE Returns(Develop)

\* formatCommitChecklist
formatCommitChecklist(commits) ==
    IF ~Truthy(commits) THEN <<>>
    ELSE LET lines == FilterBoolean(Split(commits))
         IN  [i \in DOMAIN lines |-> <<"-", " ", "[", " ", "]", " ">> \o lines[i]]

\* const x = value; rest: the rest of a block, with x bound to the value
With(value, Rest(_)) == Rest(value)

analyze_changes(r, args, config, cwd, env) ==
    With(TargetBranchOf(args, config), LAMBDA tb :
    IF tb.threw THEN Failed(tb.message, tb.about, <<>>, NoOutcome, r.openPR) ELSE
    With(getGitContext(r, cwd, tb.value, env.outs), LAMBDA c :
    IF c.threw THEN Failed(c.message, c.about, c.cmds, c, r.openPR) ELSE
    With(loadRepoConfig(r, c.value.gitRoot), LAMBDA repoConfig :
    IF ~Truthy(c.value.commits)
    THEN Done([Text("No commits found between") EXCEPT
                 !.branch = c.value.currentBranch, !.target = tb.value],
              c.cmds, c, r.openPR) ELSE
    With(generateTitle(c.value.currentBranch, OrEmpty(repoConfig)), LAMBDA gen :
    IF gen.threw THEN Failed(gen.message, gen.about, c.cmds, c, r.openPR) ELSE
    Done([Text("## Git Analysis") EXCEPT
            !.branch = c.value.currentBranch, !.target = tb.value,
            !.commitCount = c.value.commitCount, !.title = gen.value,
            !.config = repoConfig],
         c.cmds, c, r.openPR)))))

generate_pr_description(r, args, config, cwd, env) ==
    With(TargetBranchOf(args, config), LAMBDA tb :
    IF tb.threw THEN Failed(tb.message, tb.about, <<>>, NoOutcome, r.openPR) ELSE
    With(args.include_diff, LAMBDA includeDiff :
    With(getGitContext(r, cwd, tb.value, env.outs), LAMBDA c :
    IF c.threw THEN Failed(c.message, c.about, c.cmds, c, r.openPR) ELSE
    With(loadRepoConfig(r, c.value.gitRoot), LAMBDA repoConfig :
    IF ~Truthy(c.value.commits)
    THEN Failed("No commits found between", tb.value, c.cmds, c, r.openPR) ELSE
    With(generateTitle(c.value.currentBranch, OrEmpty(repoConfig)), LAMBDA gen :
    IF gen.threw THEN Failed(gen.message, gen.about, c.cmds, c, r.openPR) ELSE
    Done([Text("## PR Context") EXCEPT
            !.branch = c.value.currentBranch, !.target = tb.value,
            !.commitCount = c.value.commitCount, !.title = gen.value,
            !.withDiff = includeDiff /\ LongTruthy(c.value.diff),
            !.checklist = formatCommitChecklist(c.value.commits),
            !.config = repoConfig],
         c.cmds, c, r.openPR))))))

\* a title taken from the repository alone, whatever args.title is
TitleIgnoringArgs(args, c, repoConfig) ==
    generateTitle(c.currentBranch, OrEmpty(repoConfig))

\* const title = args?.title || generateTitle(ctx.currentBranch, repoConfig || {})
\* of create_pr
CreateTitle(args, c, repoConfig) ==
    IF Truthy(args.title) THEN Returns(args.title)
    ELSE generateTitle(c.currentBranch, OrEmpty(repoConfig))

\* the arguments of gh pr create
GhCreateArgs(base, head, title, body, reviewers, draft) ==
    [base |-> base, head |-> head, title |-> title, body |-> body,
     reviewer |-> reviewers, draft |-> draft]

\* a test of the description that lets the empty string through
DescriptionAbsent(args) == args.description = Null

\* if (!args?.description) of create_pr
DescriptionMissing(args) == ~Truthy(args.description)

\* "Push branch", "Build gh command" and "Create PR" of create_pr
PushAndCreate(r, args, env, targetBranch, c, title, reviewers, draft) ==
    With(Ran("git push -u origin", c.value.currentBranch, env.push), LAMBDA push :
    IF c.value.currentBranch = Null
    THEN \* the push is tried and its failure swallowed; quoting the null
         \* --head argument throws
         Failed(TypeErrorReplace, <<>>, c.cmds \o <<push>>, c, r.openPR) ELSE
    With(Ran("gh pr create",
             GhCreateArgs(targetBranch, c.value.currentBranch, title,
                          args.description, reviewers, draft),
             env.create), LAMBDA create :
    IF env.create = Null
    THEN Failed("Command failed: gh pr create", <<>>,
                c.cmds \o <<push, create>>, c, r.openPR) ELSE
    Done([Text("PR Created Successfully!") EXCEPT
            !.title = title, !.url = trim(env.create),
            !.target = targetBranch, !.reviewers = reviewers,
            !.draft = IF draft THEN "Draft" ELSE ""],
         c.cmds \o <<push, create>>, c, TRUE)))

create_pr(r, args, config, cwd, env) ==
    With(TargetBranchOf(args, config), LAMBDA tb :
    IF tb.threw THEN Failed(tb.message, tb.about, <<>>, NoOutcome, r.openPR) ELSE
    With(getGitContext(r, cwd, tb.value, env.outs), LAMBDA c :
    IF c.threw THEN Failed(c.message, c.about, c.cmds, c, r.openPR) ELSE
    With(loadRepoConfig(r, c.value.gitRoot), LAMBDA repoConfig :
    IF DescriptionMissing(args)
    THEN Failed("PR description is required", <<>>, c.cmds, c, r.openPR) ELSE
    With(CreateTitle(args, c.value, repoConfig), LAMBDA gen :
    IF gen.threw THEN Failed(gen.message, gen.about, c.cmds, c, r.openPR) ELSE
    PushAndCreate(r, args, env, tb.value, c, gen.value,
                  IF Truthy(args.reviewers) THEN args.reviewers
                  ELSE Join(repoConfig.reviewers, <<",">>),
                  args.draft \/ repoConfig.draft)))))

\* const title = args?.title || generateTitle(ctx.currentBranch, repoConfig || {})
\* of preview_pr
PreviewTitle(args, c, repoConfig) ==
    IF Truthy(args.title) THEN Returns(args.title)
    ELSE generateTitle(c.currentBranch, OrEmpty(repoConfig))

NoneText == <<"n","o","n","e">>

\* args?.reviewers || repoConfig?.reviewers?.join(", ") || "none"
PreviewReviewers(args, repoConfig) ==
    IF Truthy(args.reviewers) THEN args.reviewers
    ELSE IF repoConfig.reviewers # <<>> THEN Join(repoConfig.reviewers, <<",", " ">>)
    ELSE NoneText

preview_pr(r, args, config, cwd, env) ==
    With(TargetBranchOf(args, config), LAMBDA tb :
    IF tb.threw THEN Failed(tb.message, tb.about, <<>>, NoOutcome, r.openPR) ELSE
    With(getGitContext(r, cwd, tb.value, env.outs), LAMBDA c :
    IF c.threw THEN Failed(c.message, c.about, c.cmds, c, r.openPR) ELSE
    With(loadRepoConfig(r, c.value.gitRoot), LAMBDA repoConfig :
    With(PreviewTitle(args, c.value, repoConfig), LAMBDA gen :
    IF gen.threw THEN Failed(gen.message, gen.about, c.cmds, c, r.openPR) ELSE
    Done([Text("## PR Preview") EXCEPT
            !.title = gen.value, !.branch = c.value.currentBranch,
            !.target = tb.value, !.commitCount = c.value.commitCount,
            !.reviewers = PreviewReviewers(args, repoConfig),
            !.draft = IF repoConfig.draft THEN "Yes" ELSE "No",
            !.description = IF Truthy(args.description)
                            THEN args.description ELSE Null],
         c.cmds, c, r.openPR)))))

get_repo_config(r, args, config, cwd, env) ==
    With(findGitRoot(r.gitDirs, cwd), LAMBDA gitRoot :
    IF gitRoot = Null
    THEN Failed("Not in a git repository", <<>>, <<>>, NoOutcome, r.openPR) ELSE
    With(loadRepoConfig(r, gitRoot), LAMBDA repoConfig :
    IF repoConfig.isNull
    THEN Done(Text("No .pr-mcp.json found in"), <<>>, NoOutcome, r.openPR)
    ELSE Done([Text("## Repo Config") EXCEPT !.config = repoConfig],
              <<>>, NoOutcome, r.openPR)))

\* a JavaScript value that is a string or a number
JsString(s) == [type |-> "string", value |-> s]
JsNumber(digits) == [type |-> "number", value |-> digits]

\* the number of the pull request gh pr list finds
OpenPrNumber == <<"7">>

\* "Build gh pr edit command" and the edit, of update_pr; looked holds the
\* commands run to find the number
EditPr(r, args, env, prNumber, looked) ==
    With([title |-> IF Truthy(args.title) THEN args.title ELSE Null,
          body |-> IF Truthy(args.description) THEN args.description ELSE Null,
          reviewer |-> IF Truthy(args.reviewers) THEN args.reviewers ELSE Null],
         LAMBDA updates :
    IF updates.title = Null /\ updates.body = Null /\ updates.reviewer = Null
    THEN Failed("No updates specified (provide title, description, or reviewers)",
                <<>>, looked, NoOutcome, r.openPR) ELSE
    IF prNumber.type # "string"
    THEN \* a.replace on a number
         Failed("a.replace is not a function", <<>>, looked, NoOutcome, r.openPR) ELSE
    With(Ran("gh pr edit", [number |-> prNumber, updates |-> updates], env.edit),
         LAMBDA edit :
    IF env.edit = Null
    THEN Failed("Command failed: gh pr edit", <<>>, looked \o <<edit>>,
                NoOutcome, r.openPR)
    ELSE Done([Text("PR updated successfully") EXCEPT !.number = prNumber.value],
              looked \o <<edit>>, NoOutcome, r.openPR)))

\* JSON.parse(prList): the open pull requests of the branch, as gh pr list
\* --head <branch> --json number --limit 1 prints them
ListedPrs(r, currentBranch) ==
    IF r.openPR /\ Truthy(currentBranch) THEN <<OpenPrNumber>> ELSE <<>>

update_pr(r, args, config, cwd, env) ==
    With(findGitRoot(r.gitDirs, cwd), LAMBDA gitRoot :
    IF gitRoot = Null
    THEN Failed("Not in a git repository", <<>>, <<>>, NoOutcome, r.openPR) ELSE
    IF Truthy(args.pr_number)
    THEN EditPr(r, args, env, JsString(args.pr_number), <<>>) ELSE
    With(execGit(env.outs.branch), LAMBDA currentBranch :
    With(<<Ran("git branch --show-current", <<>>, env.outs.branch),
           Ran("gh pr list --head", currentBranch, env.list)>>, LAMBDA looked :
    IF env.list = Null
    THEN Failed("Command failed: gh pr list", <<>>, looked, NoOutcome, r.openPR) ELSE
    With(ListedPrs(r, currentBranch), LAMBDA prs :
    IF prs = <<>>
    THEN Failed("No PR found for branch", currentBranch, looked, NoOutcome, r.openPR)
    ELSE EditPr(r, args, env, JsNumber(prs[1]), looked)))))

(***************************************************************************)
(* The CallToolRequestSchema handler.                                      *)
(***************************************************************************)
\* default: throw new Error(`Unknown tool: ${name}`)
unknown_tool(r, args, config, cwd, env) ==
    Failed("Unknown tool", <<>>, <<>>, NoOutcome, r.openPR)

\* the lead of the catch block's text, before error.message
ErrorLead == "**Error:** "

\* what the handler hands back to the protocol layer
ResultOf(body) ==
    [returned |-> TRUE, isError |-> FALSE, text |-> body.text]

\* what the handler returns once the switch is through
Served(result, body) ==
    [response |-> result, cmds |-> body.cmds, ctx |-> body.ctx,
     openPR |-> body.openPR]

\* a result of the catch block that carries no error flag
ErrorResultUnflagged(body) ==
    [returned |-> TRUE, isError |-> FALSE,
     text |-> [Text(ErrorLead) EXCEPT !.message = body.message, !.about = body.about]]

\* what the handler hands back when the case has thrown: the catch block
ErrorResultOf(body) ==
    [returned |-> TRUE, isError |-> TRUE,
     text |-> [Text(ErrorLead) EXCEPT !.message = body.message, !.about = body.about]]

\* const cwd = args?.working_directory || process.cwd()
CwdOf(r, args) ==
    IF Truthy(args.working_directory) THEN args.working_directory ELSE r.processCwd

\* server.setRequestHandler(CallToolRequestSchema, ...): the try around the
\* switch and its catch; body is what the case the switch selected for the
\* request's name came to, with cwd and config as the code before the try
\* set them
CallTool(body) ==
    IF body.threw THEN Served(ErrorResultOf(body), body)
    ELSE Served(ResultOf(body), body)

(***************************************************************************)
(* Spec: the server serving tool calls, one at a time.                     *)
(***************************************************************************)
SomeTitle == <<"M","y"," ","P","R">>
SomeDescription == <<"b","o","d","y">>
SomeReviewers == <<"c","a","r","o","l">>
Alice == <<"a","l","i","c","e">>
Bob == <<"b","o","b">>
PrUrl == <<"h","t","t","p","s",":","/","/","g","h","/","p","u","l","l","/","7","\n">>
Pushed == <<"o","k","\n">>

ConfigFiles ==
    { File("absent", DefaultConfig),
      File("parsed", [isNull |-> FALSE, defaultTarget |-> Main]),
      File("parsed", NullConfig) }

RepoConfigFiles ==
    { File("absent", NoRepoConfig),
      File("parsed", EmptyRepoConfig),
      File("parsed", [EmptyRepoConfig EXCEPT !.reviewers = <<Alice, Bob>>,
                                             !.targetBranch = Main,
                                             !.draft = TRUE,
                                             !.titlePrefix = Wip]) }

Refs == { [local |-> {Develop}, remote |-> {}],
          [local |-> {}, remote |-> {Develop, Main}],
          [local |-> {Main}, remote |-> {Develop}],
          [local |-> {}, remote |-> {}] }

Init ==
    /\ \E refs \in Refs, cf \in ConfigFiles, rf \in RepoConfigFiles, pr \in BOOLEAN :
         repo = [IdleRepo EXCEPT !.localRefs = refs.local, !.remoteRefs = refs.remote,
                                 !.configFile = cf, !.repoConfigFile = rf,
                                 !.openPR = pr]
    /\ request = NoRequest
    /\ executed = <<>>
    /\ response = NoResponse
    /\ ctx = NoOutcome
    /\ titleCall = NoTitleCall
    /\ walk = NoWalk

\* what the read commands give: all succeed, one of them fails, or all fail
AllReadsOk ==
    [branch |-> FeatureBranchOut, log |-> <<"a","1"," ","x","\n">>,
     messages |-> SomeText, stat |-> SomeText, diff |-> SmallDiff]
ReadOutcomes ==
    { AllReadsOk,
      [AllReadsOk EXCEPT !.branch = <<"\n">>],
      [AllReadsOk EXCEPT !.log = <<>>],
      [AllReadsOk EXCEPT !.branch = Null],
      [AllReadsOk EXCEPT !.log = Null],
      [AllReadsOk EXCEPT !.messages = Null],
      [AllReadsOk EXCEPT !.stat = Null],
      [AllReadsOk EXCEPT !.diff = LongNull],
      [branch |-> Null, log |-> Null, messages |-> Null, stat |-> Null,
       diff |-> LongNull] }

NoEnv == [outs |-> AllReadsOk, push |-> Null, create |-> Null, list |-> Null,
          edit |-> Null]
ReadEnvs == {[NoEnv EXCEPT !.outs = o] : o \in ReadOutcomes}
CreateEnvs ==
    {[NoEnv EXCEPT !.outs = o, !.push = p, !.create = c] :
       o \in {AllReadsOk, [AllReadsOk EXCEPT !.branch = <<"\n">>],
              [AllReadsOk EXCEPT !.branch = Null]},
       p \in {Null, Pushed}, c \in {Null, PrUrl}}
UpdateEnvs ==
    {[NoEnv EXCEPT !.outs = o, !.list = l, !.edit = e] :
       o \in {AllReadsOk, [AllReadsOk EXCEPT !.branch = Null]},
       l \in {Null, Pushed}, e \in {Null, Pushed}}

Dirs == {Null, OutsideDir}
Targets == {Null, Main}

AnalyzeArgs ==
    {[NoArgs EXCEPT !.target_branch = t, !.working_directory = d] :
       t \in Targets, d \in Dirs}
GenerateArgs ==
    {[a EXCEPT !.include_diff = i] : a \in AnalyzeArgs, i \in BOOLEAN}
PreviewArgs ==
    {[a EXCEPT !.title = t, !.description = b, !.reviewers = v] :
       a \in AnalyzeArgs, t \in {Null, SomeTitle}, b \in {Null, SomeDescription},
       v \in {Null, SomeReviewers}}
CreateArgs ==
    {[a EXCEPT !.title = t, !.description = b, !.reviewers = v, !.draft = f] :
       a \in AnalyzeArgs, t \in {Null, SomeTitle}, b \in {Null, <<>>, SomeDescription},
       v \in {Null, SomeReviewers}, f \in BOOLEAN}
RepoConfigArgs == {[NoArgs EXCEPT !.working_directory = d] : d \in Dirs}
UpdateArgs ==
    {[NoArgs EXCEPT !.working_directory = d, !.pr_number = n, !.title = t,
                    !.description = b, !.reviewers = v] :
       d \in Dirs, n \in {Null, <<"4","2">>}, t \in {Null, SomeTitle},
       b \in {Null, SomeDescription}, v \in {Null, SomeReviewers}}

\* the handler has served the call of tool name with arguments args: served
\* is what CallTool came to
Serve(name, args, served) ==
    /\ request' = [name |-> name, args |-> args]
    /\ response' = served.response
    /\ executed' = served.cmds
    /\ ctx' = served.ctx
    /\ repo' = [repo EXCEPT !.openPR = served.openPR]
    /\ UNCHANGED <<titleCall, walk>>

AnalyzeChanges ==
    /\ request = NoRequest
    /\ \E args \in AnalyzeArgs, env \in ReadEnvs :
         Serve("analyze_changes", args,
               CallTool(analyze_changes(repo, args, loadConfig(repo.configFile),
                                       CwdOf(repo, args), env)))

GeneratePrDescription ==
    /\ request = NoRequest
    /\ \E args \in GenerateArgs, env \in ReadEnvs :
         Serve("generate_pr_description", args,
               CallTool(generate_pr_description(repo, args, loadConfig(repo.configFile),
                                               CwdOf(repo, args), env)))

CreatePr ==
    /\ request = NoRequest
    /\ \E args \in CreateArgs, env \in CreateEnvs :
         Serve("create_pr", args,
               CallTool(create_pr(repo, args, loadConfig(repo.configFile),
                                 CwdOf(repo, args), env)))

PreviewPr ==
    /\ request = NoRequest
    /\ \E args \in PreviewArgs, env \in ReadEnvs :
         Serve("preview_pr", args,
               CallTool(preview_pr(repo, args, loadConfig(repo.configFile),
                                  CwdOf(repo, args), env)))

GetRepoConfig ==
    /\ request = NoRequest
    /\ \E args \in RepoConfigArgs, env \in {NoEnv} :
         Serve("get_repo_config", args,
               CallTool(get_repo_config(repo, args, loadConfig(repo.configFile),
                                       CwdOf(repo, args), env)))

UpdatePr ==
    /\ request = NoRequest
    /\ \E args \in UpdateArgs, env \in UpdateEnvs :
         Serve("update_pr", args,
               CallTool(update_pr(repo, args, loadConfig(repo.configFile),
                                 CwdOf(repo, args), env)))

\* a call that names no tool of the server
UnknownTool ==
    /\ request = NoRequest
    /\ \E args \in RepoConfigArgs, env \in {NoEnv} :
         Serve("merge_pr", args,
               CallTool(unknown_tool(repo, args, loadConfig(repo.configFile),
                                    CwdOf(repo, args), env)))

\* the result has gone to the protocol layer; the server awaits the next call
AwaitNext ==
    /\ request # NoRequest
    /\ request' = NoRequest
    /\ executed' = <<>>
    /\ response' = NoResponse
    /\ ctx' = NoOutcome
    /\ UNCHANGED <<repo, titleCall, walk>>

Next ==
    \/ AnalyzeChanges
    \/ GeneratePrDescription
    \/ CreatePr
    \/ PreviewPr
    \/ GetRepoConfig
    \/ UpdatePr
    \/ UnknownTool
    \/ AwaitNext

Spec == Init /\ [][Next]_vars

(***************************************************************************)
(* Properties of the handler, under Spec.                                  *)
(***************************************************************************)
GitPush == "git push -u origin"
GhPrCreate == "gh pr create"
GhPrEdit == "gh pr edit"

\* the positions in the commands run by the call that ran cmd
RunsOf(cmd) == {i \in DOMAIN executed : executed[i].cmd = cmd}

Answered(name) == request.name = name /\ response.returned

\* C2: a create_pr call whose description is missing or empty is answered
\* with an error-flagged result, and nothing the call has run is the push or
\* the gh pr create command
C2_NoDescriptionNoPush ==
    (request.name = "create_pr" /\ ~Truthy(request.args.description)) =>
        /\ response.returned
        /\ response.isError
        /\ RunsOf(GitPush) = {}
        /\ RunsOf(GhPrCreate) = {}

\* an empty description, in a repository whose context was built, is
\* refused for its description
C2_Witness ==
    /\ Answered("create_pr")
    /\ request.args.description = <<>>
    /\ ~ctx.threw
    /\ response.isError
    /\ response.text.message = "PR description is required"

CreateCalled ==
    Answered("create_pr") /\ Truthy(request.args.description) /\ ~ctx.threw

\* the push ran once, then gh pr create once with base the target branch and
\* head the current branch; the result carries the printed URL without the
\* error flag when gh pr create succeeded, the error flag when it failed
PushedThenCreated ==
    /\ Cardinality(RunsOf(GitPush)) = 1
    /\ Cardinality(RunsOf(GhPrCreate)) = 1
    /\ \A i \in RunsOf(GitPush), j \in RunsOf(GhPrCreate) :
         /\ i < j
         /\ executed[i].arg = ctx.value.currentBranch
         /\ executed[j].arg.base = ctx.value.targetBranch
         /\ executed[j].arg.head = ctx.value.currentBranch
         /\ IF executed[j].out # Null
            THEN ~response.isError /\ response.text.url = trim(executed[j].out)
            ELSE response.isError

\* C9: a create_pr call with a description and a context built runs the
\* push once, then gh pr create once with base the target branch and head
\* the current branch, whatever the push gave; the result is the printed URL
\* without the error flag when gh pr create succeeds, and error-flagged when
\* it fails
C9_PushThenCreate == CreateCalled => PushedThenCreated

\* what C9 states holds of every call in which git branch --show-current
\* gave the branch's name
C9_PushThenCreateGivenBranch ==
    (CreateCalled /\ ctx.value.currentBranch # Null) => PushedThenCreated

\* a call with a description in which the push failed and gh pr create
\* succeeded
C9_WitnessGivenBranch ==
    /\ CreateCalled
    /\ ctx.value.currentBranch # Null
    /\ \E i \in RunsOf(GitPush) : executed[i].out = Null
    /\ ~response.isError

\* C10: a preview_pr call leaves the repository, its pull requests and the
\* configuration files as they were, runs no push, gh pr create or gh pr
\* edit, and the title it reports is the one create_pr derives from the same
\* arguments, context and repo config
C10_PreviewFrame ==
    [][request'.name = "preview_pr" =>
         /\ repo' = repo
         /\ \A i \in DOMAIN executed' :
              executed'[i].cmd \notin {GitPush, GhPrCreate, GhPrEdit}
         /\ ~ctx'.threw =>
              With(CreateTitle(request'.args, ctx'.value,
                               loadRepoConfig(repo, ctx'.value.gitRoot)),
                   LAMBDA title :
                     IF title.threw THEN response'.isError
                     ELSE /\ ~response'.isError
                          /\ response'.text.title = title.value)]_vars

\* a preview without a title argument reports a generated title that
\* carries the repo config's prefix
C10_Witness ==
    /\ Answered("preview_pr")
    /\ ~response.isError
    /\ request.args.title = Null
    /\ loadRepoConfig(repo, ctx.value.gitRoot).titlePrefix = Wip
    /\ response.text.title # Null

\* the tools that take target_branch
TargetTools == {"analyze_changes", "generate_pr_description", "create_pr",
                "preview_pr"}

\* the directory the served call worked in, and the repo config of its root
CallRoot == findGitRoot(repo.gitDirs, CwdOf(repo, request.args))
CallRepoConfig == loadRepoConfig(repo, CallRoot)

\* a tool that takes target_branch has been called without it, inside a
\* repository whose .pr-mcp.json sets targetBranch
CalledWithRepoTarget ==
    /\ request.name \in TargetTools
    /\ response.returned
    /\ ~Truthy(request.args.target_branch)
    /\ CallRoot # Null
    /\ Truthy(CallRepoConfig.targetBranch)

\* C11: a tool that takes target_branch, called without it in a repository
\* whose .pr-mcp.json sets targetBranch, verifies that branch (or its
\* origin/ form) and no other, compares against it, and gives it as the
\* base of gh pr create
C11_RepoTargetUsed ==
    CalledWithRepoTarget =>
        /\ \A i \in RunsOf("git rev-parse --verify") :
             executed[i].arg \in {CallRepoConfig.targetBranch,
                                  OriginOf(CallRepoConfig.targetBranch)}
        /\ ~ctx.threw => ctx.value.targetBranch = CallRepoConfig.targetBranch
        /\ \A j \in RunsOf(GhPrCreate) :
             executed[j].arg.base = CallRepoConfig.targetBranch

\* what the code does: the target is the target_branch argument, else the
\* global config's defaultTarget, else "develop", whatever .pr-mcp.json sets
C11_GlobalTargetUsed ==
    (CalledWithRepoTarget /\ ~ctx.threw) =>
        ctx.value.targetBranch = loadConfig(repo.configFile).defaultTarget

\* .pr-mcp.json sets main, the global config is absent, and the call compared
\* against develop
C11_WitnessGlobalTarget ==
    /\ CalledWithRepoTarget
    /\ ~ctx.threw
    /\ CallRepoConfig.targetBranch = Main
    /\ ctx.value.targetBranch = Develop

\* an update_pr call without pr_number has been answered, in a repository
\* whose current branch was read and has an open pull request that the list
\* query found
UpdateByBranch ==
    /\ Answered("update_pr")
    /\ ~Truthy(request.args.pr_number)
    /\ CallRoot # Null
    /\ repo.openPR
    /\ \E i \in RunsOf("git branch --show-current") : Truthy(execGit(executed[i].out))
    /\ \E i \in RunsOf("gh pr list --head") : executed[i].out # Null

\* one of title, description, reviewers was given
SomeUpdateGiven ==
    \/ Truthy(request.args.title)
    \/ Truthy(request.args.description)
    \/ Truthy(request.args.reviewers)

\* the fields of gh pr edit that the arguments supply
SuppliedUpdates ==
    [title |-> IF Truthy(request.args.title) THEN request.args.title ELSE Null,
     body |-> IF Truthy(request.args.description)
              THEN request.args.description ELSE Null,
     reviewer |-> IF Truthy(request.args.reviewers)
                  THEN request.args.reviewers ELSE Null]

\* C12: an update_pr call without pr_number, on a branch with an open pull
\* request, with some field given, runs gh pr edit once for the listed
\* number with exactly the fields given and answers without the error flag
\* (with it when the edit itself fails); with no field given it is
\* error-flagged and gh pr edit is not run
C12_UpdateByBranch ==
    UpdateByBranch =>
        IF SomeUpdateGiven
        THEN /\ Cardinality(RunsOf(GhPrEdit)) = 1
             /\ \A j \in RunsOf(GhPrEdit) :
                  /\ executed[j].arg.number.value = OpenPrNumber
                  /\ executed[j].arg.updates = SuppliedUpdates
                  /\ response.isError <=> executed[j].out = Null
        ELSE response.isError /\ RunsOf(GhPrEdit) = {}

\* what the code does with a listed number: with no field given the call is
\* refused; with a field given the number, not a string, makes the quoting
\* of the arguments throw, and gh pr edit is never run
C12_ListedNumberNeverEdited ==
    UpdateByBranch =>
        /\ response.isError
        /\ RunsOf(GhPrEdit) = {}
        /\ response.text.message =
             IF SomeUpdateGiven THEN "a.replace is not a function"
             ELSE "No updates specified (provide title, description, or reviewers)"

\* a title was given for the branch's open pull request and the call ended
\* in the TypeError
C12_WitnessTypeError ==
    /\ UpdateByBranch
    /\ Truthy(request.args.title)
    /\ response.text.message = "a.replace is not a function"

\* the tools that only read the repository
ReadTools == {"analyze_changes", "generate_pr_description", "preview_pr"}

\* the outputs a call got from the command cmd
OutputsOf(cmd) == {executed[i].out : i \in RunsOf(cmd)}

\* a reading tool has been answered, the repository root found and the target
\* branch resolved
ReadWithContext ==
    /\ request.name \in ReadTools
    /\ response.returned
    /\ ~ctx.threw

\* one of the five informational commands of getGitContext failed in the call
SomeReadFailed ==
    \/ \E cmd \in {"git branch --show-current", "git log --oneline",
                    "git log --pretty", "git diff --stat"} :
         Null \in OutputsOf(cmd)
    \/ LongNull \in OutputsOf("git diff")

\* C13: once the root is found and the target resolves, no failure of a
\* reading command makes the result of analyze_changes,
\* generate_pr_description or preview_pr an error, and a failed list query
\* of update_pr is not what the call fails with
C13_ReadFailuresDegrade ==
    /\ (ReadWithContext /\ SomeReadFailed) => ~response.isError
    /\ (Answered("update_pr") /\ Null \in OutputsOf("gh pr list --head")) =>
          response.text.message # "Command failed: gh pr list"

\* the call comes to generate a title from the branch name: preview_pr when
\* no title is given, the other two when the log holds commits
TitleGenerated ==
    IF request.name = "preview_pr" THEN ~Truthy(request.args.title)
    ELSE Truthy(ctx.value.commits)

\* what the code does: when the branch name was read wherever a title is
\* generated from it and, for generate_pr_description, the log holds
\* commits, the failures of the other reading commands degrade and the
\* result carries no error flag
C13_DegradeGivenBranchAndLog ==
    ( /\ ReadWithContext
      /\ SomeReadFailed
      /\ TitleGenerated => ctx.value.currentBranch # Null
      /\ request.name = "generate_pr_description" => Truthy(ctx.value.commits) )
    => ~response.isError

\* git diff failed and generate_pr_description answered without the error
\* flag and without a diff
C13_WitnessDegraded ==
    /\ ReadWithContext
    /\ request.name = "generate_pr_description"
    /\ LongNull \in OutputsOf("git diff")
    /\ ~response.isError
    /\ ~response.text.withDiff

(***************************************************************************)
(* SpecRoot: findGitRoot, its loop taken one iteration at a time, on paths *)
(* held as strings.  The directories of the file system are sequences of   *)
(* one-character names, as in gitDirs; a segment of a path that is longer  *)
(* than one character names no directory of the file system.               *)
(***************************************************************************)
MaxPathTokens == 4

Slash == <<"/">>
Dot == <<".">>

\* path.dirname of the POSIX flavour: the path up to the last slash that has
\* a character other than a slash after it
PathDirname(path) ==
    IF path = <<>> THEN Dot
    ELSE LET hasRoot == path[1] = "/"
             ends == {p \in 2..Len(path) :
                        /\ path[p] = "/"
                        /\ \E q \in (p + 1)..Len(path) : path[q] # "/"}
         IN  IF ends = {} THEN (IF hasRoot THEN Slash ELSE Dot)
             ELSE IF hasRoot /\ Max(ends) = 2 THEN <<"/", "/">>
             ELSE SubSeq(path, 1, Max(ends) - 1)

\* path.split("/") without the empty segments
RECURSIVE Segments(_)
Segments(path) ==
    IF path = <<>> THEN <<>>
    ELSE IF Head(path) = "/" THEN Segments(Tail(path))
    ELSE LET slashes == {j \in DOMAIN path : path[j] = "/"}
             e == IF slashes = {} THEN Len(path) ELSE Min(slashes) - 1
         IN  <<SubSeq(path, 1, e)>> \o Segments(SubSeq(path, e + 1, Len(path)))

\* a name no directory has
Unnamed == "*"

\* the directory that the segments lead to from the directory base, taken
\* as path.join normalises them: "." stays, ".." drops the last name
RECURSIVE Follow(_, _)
Follow(base, segs) ==
    IF segs = <<>> THEN base
    ELSE IF Head(segs) = Dot THEN Follow(base, Tail(segs))
    ELSE IF Head(segs) = <<".", ".">>
         THEN Follow(SubSeq(base, 1, Len(base) - 1), Tail(segs))
    ELSE Follow(Append(base, IF Len(Head(segs)) = 1 THEN Head(segs)[1] ELSE Unnamed),
                Tail(segs))

\* the directory a path names, a relative one from the process's directory
Resolve(r, path) ==
    Follow(IF path # <<>> /\ path[1] = "/" THEN RootDir ELSE r.processCwd,
           Segments(path))

\* fs.existsSync(path.join(dir, ".git"))
ExistsGit(r, dir) == Resolve(r, dir) \in r.gitDirs

\* process.cwd(): the process's directory as a string
RECURSIVE PathOf(_)
PathOf(dir) ==
    IF dir = <<>> THEN <<>>
    ELSE IF Len(dir) = 1 THEN <<"/", dir[1]>>
    ELSE PathOf(SubSeq(dir, 1, Len(dir) - 1)) \o <<"/", dir[Len(dir)]>>
Cwd(r) == IF r.processCwd = RootDir THEN Slash ELSE PathOf(r.processCwd)

PathTokens == {Slash, <<"r">>, <<"s">>, Dot, <<".", ".">>}
RECURSIVE PathsOf(_)
PathsOf(n) ==
    IF n = 0 THEN {<<>>}
    ELSE LET shorter == PathsOf(n - 1)
         IN  shorter \cup {t \o q : t \in PathTokens, q \in shorter}
StartDirs == PathsOf(MaxPathTokens)

RootRepos ==
    {[IdleRepo EXCEPT !.gitDirs = g, !.processCwd = d] :
       g \in {{}, {RepoDir}, {SubDir}}, d \in {RepoDir, SubDir, <<"s">>}}

\* let dir = startDir || process.cwd(), and the loop about to be entered
InitRoot ==
    /\ repo \in RootRepos
    /\ \E startDir \in StartDirs :
         walk = [pc |-> "test", start |-> startDir,
                 dir |-> IF Truthy(startDir) THEN startDir ELSE Cwd(repo),
                 result |-> Null]
    /\ request = NoRequest
    /\ executed = <<>>
    /\ response = NoResponse
    /\ ctx = NoOutcome
    /\ titleCall = NoTitleCall

\* while (dir !== "/"), and return null after the loop
LoopTest ==
    /\ walk.pc = "test"
    /\ walk' = IF walk.dir = Slash
               THEN [walk EXCEPT !.pc = "done", !.result = Null]
               ELSE [walk EXCEPT !.pc = "body"]
    /\ UNCHANGED <<repo, request, executed, response, ctx, titleCall>>

\* the body of the loop: return dir if it holds .git, else go to its parent
LoopBody ==
    /\ walk.pc = "body"
    /\ walk' = IF ExistsGit(repo, walk.dir)
               THEN [walk EXCEPT !.pc = "done", !.result = walk.dir]
               ELSE [walk EXCEPT !.pc = "test", !.dir = PathDirname(walk.dir)]
    /\ UNCHANGED <<repo, request, executed, response, ctx, titleCall>>

NextRoot == LoopTest \/ LoopBody

\* the loop is synchronous code: it goes on while it can
SpecRoot == InitRoot /\ [][NextRoot]_vars /\ WF_vars(NextRoot)

\* findGitRoot has returned
RootReturned == walk.pc = "done"

\* the directory findGitRoot started from, as a string
StartedFrom == IF Truthy(walk.start) THEN walk.start ELSE Cwd(repo)

IsAbsolute(path) == path # <<>> /\ path[1] = "/"

\* no segment of the path is "." or ".."
IsPlain(path) ==
    \A i \in DOMAIN Segments(path) : Segments(path)[i] \notin {Dot, <<".", ".">>}

\* the value returned is the nearest directory with .git on the chain of
\* parents of the start, the file system's root left out, or null when there
\* is none
ReturnedNearest ==
    LET nearest == findGitRoot(repo.gitDirs, Resolve(repo, StartedFrom))
    IN  IF walk.result = Null THEN nearest = Null
        ELSE nearest # Null /\ Resolve(repo, walk.result) = nearest

\* C14: findGitRoot returns, whatever string it starts from
C14_FindGitRootTerminates == <>RootReturned

\* what the code does: from an absolute start the loop reaches "/" or a
\* directory with .git, and returns
C14_TerminatesFromAbsolute ==
    (walk.pc = "test" /\ IsAbsolute(walk.dir)) ~> RootReturned

\* from an absolute start without "." and ".." segments the value returned
\* is the nearest directory with .git above the start, or null
C14_NearestFromPlainAbsolute ==
    (RootReturned /\ IsAbsolute(StartedFrom) /\ IsPlain(StartedFrom))
        => ReturnedNearest

\* the same of every start, which does not hold: dirname takes the path's
\* text apart, and the text before a ".." segment is not the parent of the
\* directory the path names
C14_NearestAlways == RootReturned => ReturnedNearest

\* the loop has come back to its test with dir "." and no .git in the
\* process's directory: it goes round for ever
C14_WitnessLoop ==
    /\ walk.pc = "test"
    /\ walk.dir = Dot
    /\ ~IsAbsolute(walk.start)
    /\ ~ExistsGit(repo, Dot)

\* an absolute start two directories deep or more, below no repository, came
\* to null
C14_WitnessNotFound ==
    /\ RootReturned
    /\ IsAbsolute(walk.start)
    /\ Len(Segments(walk.start)) >= 2
    /\ walk.result = Null

\* under SpecContext: when findGitRoot finds no root, getGitContext throws
\* "Not in a git repository" and has run no command
C14_NoRootNoCommand ==
    (ContextCalled /\ ~RootFound) =>
        /\ ctx.threw
        /\ ctx.message = "Not in a git repository"
        /\ executed = <<>>

\* getGitContext was called outside every repository
C14_WitnessNoRoot == ContextCalled /\ ~RootFound /\ ctx.threw

====
